---- MODULE Spec2Model ----
(***************************************************************************)
(* Retrieval-and-orchestration core of the RAG service.                    *)
(*                                                                         *)
(*   Retriever     src/src/backend/services/retriever.py                   *)
(*   Orchestrator  src/src/backend/services/orchestrator.py                *)
(*   HTTP API      src/main.py, src/src/backend/api/admin.py               *)
(*                                                                         *)
(* Scores are fixed-point numbers in tenths (15 stands for 1.5).  Strings  *)
(* whose characters matter (the question, a chunk text) are sequences of   *)
(* one-character strings, so that str.strip() is computed, not assumed.    *)
(* An Optional value is a record [some, v]; None is [some |-> FALSE].      *)
(***************************************************************************)
EXTENDS Integers, Sequences, FiniteSets, TLC

VARIABLES cfg, index, created, ret, orch, run

\* the running service: orchestrator.retriever, the Retriever objects, the
\* index handles, the corpus, one request thread and one admin thread
VARIABLES retriever, retrievers, handles, store, req, adm, obs

coreVars == <<cfg, index, created, ret, orch, run>>

apiVars == <<retriever, retrievers, handles, store, req, adm, obs>>

vars == <<cfg, index, created, ret, orch, run,
          retriever, retrievers, handles, store, req, adm, obs>>

(***************************************************************************)
(* Bounds of the model.                                                    *)
(***************************************************************************)
\* the index answers with at most this many candidates (fetch_k of the run)
MaxCand == 3
\* top_k ranges over -1 .. MaxTopK
MaxTopK == 2
\* min_results ranges over 0 .. MaxMinResults
MaxMinResults == 2
\* the stub retriever of the orchestrator hands over at most this many chunks
MaxChunks == 2
\* the orchestrator's own top_k ranges over -1 .. MaxOrchTopK
MaxOrchTopK == 2
\* a system-prompt file holds at most this many characters
MaxPromptLen == 3
\* the request thread serves at most this many chat completions
MaxRequests == 2
\* the admin thread serves at most this many operations
MaxAdminOps == 2
\* the collection holds at most this many embeddings of the file
MaxEmbeddings == 2
\* one Retriever creates at most this many index handles
MaxHandles == 3

(***************************************************************************)
(* Python helpers.                                                         *)
(***************************************************************************)
Min(a, b) == IF a <= b THEN a ELSE b

Max(a, b) == IF a >= b THEN a ELSE b

\* s[:k], negative k counting from the end as Python does
PySlice(s, k) ==
  SubSeq(s, 1, IF k >= 0 THEN Min(k, Len(s)) ELSE Max(Len(s) + k, 0))

IsSpace(c) == c \in {" ", "\n"}

RECURSIVE LStrip(_)
LStrip(s) ==
  IF s = <<>> THEN <<>>
  ELSE IF IsSpace(Head(s)) THEN LStrip(Tail(s)) ELSE s

RECURSIVE RStrip(_)
RStrip(s) ==
  IF s = <<>> THEN <<>>
  ELSE IF IsSpace(s[Len(s)]) THEN RStrip(SubSeq(s, 1, Len(s) - 1)) ELSE s

\* a strip that is forgotten
Strip_Missing(s) == s

\* str.strip()
Strip(s) == RStrip(LStrip(s))

\* Optional[str]
NoneStr == [some |-> FALSE, v |-> <<>>]

Str(s) == [some |-> TRUE, v |-> s]

\* (x or "")
OrEmpty(x) == IF x.some THEN x.v ELSE <<>>

(***************************************************************************)
(* Metadata mappings.  A key holds a string or is absent; present is FALSE *)
(* for a metadata attribute that is None.                                  *)
(***************************************************************************)
Absent == "<absent>"

\* truth value of what dict.get returns
Truthy(x) == x \notin {Absent, ""}

\* x or y
PyOr(x, y) == IF Truthy(x) THEN x ELSE y

NoneMeta ==
  [present |-> FALSE, source_file |-> Absent, file_name |-> Absent,
   source_path |-> Absent, file_path |-> Absent]

EmptyMeta == [NoneMeta EXCEPT !.present = TRUE]

\* (metadata or {})
DictOrEmpty(m) == IF m.present THEN m ELSE EmptyMeta

(***************************************************************************)
(* Scores.  A raw score is None, a number, or a value float() rejects.     *)
(***************************************************************************)
NoneScore == [kind |-> "none", v |-> 0]

BadScore == [kind |-> "str", v |-> 0]

Num(n) == [kind |-> "num", v |-> n]

\* Optional[float] after _safe_float
NoFloat == [some |-> FALSE, v |-> 0]

Float(n) == [some |-> TRUE, v |-> n]

safe_float(x) == IF x.kind = "num" THEN Float(x.v) ELSE NoFloat

\* the 1.5 of _detect_score_type, in tenths
AutoCut == 15

RECURSIVE SeqMax(_)
SeqMax(s) ==
  IF Len(s) = 1 THEN s[1] ELSE Max(s[1], SeqMax(Tail(s)))

\* the cut taken inclusive
detect_score_type_Inclusive(numeric_scores) ==
  IF numeric_scores = <<>> THEN "similarity"
  ELSE IF SeqMax(numeric_scores) >= AutoCut THEN "distance"
       ELSE "similarity"

detect_score_type(numeric_scores) ==
  IF numeric_scores = <<>> THEN "similarity"
  ELSE IF SeqMax(numeric_scores) > AutoCut THEN "distance"
       ELSE "similarity"

(***************************************************************************)
(* Configuration of the Retriever (files/config.json).                     *)
(***************************************************************************)
NoneType == "None"

ScoreTypes == {NoneType, "auto", "similarity", "distance"}

MinScores == {NoneScore, Num(5)}

MaxDistances == {NoneScore, Num(15)}

Configs ==
  [top_k : -1 .. MaxTopK,
   min_results : 0 .. MaxMinResults,
   score_type : ScoreTypes,
   min_score : MinScores,
   max_distance : MaxDistances]

\* (cfg.get("score_type") or "auto").strip().lower()
score_type_cfg(c) == IF c.score_type = NoneType THEN "auto" ELSE c.score_type

(***************************************************************************)
(* What the index returns: NodeWithScore objects, told apart by their rank *)
(* id in the candidate list.                                               *)
(***************************************************************************)
RawScores == {NoneScore, BadScore, Num(4), Num(5), Num(15), Num(16)}

NodeTexts == {<<"a">>}

NodeMetas == {[EmptyMeta EXCEPT !.source_file = "a.txt"]}

NodeLists(n) ==
  {s \in [1 .. n -> [id : 1 .. n, score : RawScores,
                     text : NodeTexts, metadata : NodeMetas]] :
     \A i \in 1 .. n : s[i].id = i}

ResultLists == UNION {NodeLists(n) : n \in 0 .. MaxCand}

\* payload.input
Inputs == {NoneStr, Str(<<>>), Str(<<" ">>), Str(<<" ", "q">>), Str(<<"q">>)}

(***************************************************************************)
(* Retriever._get_index                                                    *)
(***************************************************************************)
NoIndex == 0

\* the cached handle never reused
get_index_AlwaysNew(idx, made, rebuild) == made + 1

\* the handle _get_index returns; a handle is the number of its creation
get_index(idx, made, rebuild) ==
  IF idx # NoIndex /\ ~rebuild THEN idx ELSE made + 1

(***************************************************************************)
(* Retriever.retrieve, lines 147-209, as a function of the configuration   *)
(* and of the candidates the search returned.                              *)
(***************************************************************************)
NumericScores(results) ==
  LET RECURSIVE Collect(_)
      Collect(s) ==
        IF s = <<>> THEN <<>>
        ELSE LET sc == safe_float(Head(s).score)
             IN  (IF sc.some THEN <<sc.v>> ELSE <<>>) \o Collect(Tail(s))
  IN  Collect(results)

ResolveScoreType(c, results) ==
  IF score_type_cfg(c) = "auto"
    THEN detect_score_type(NumericScores(results))
    ELSE score_type_cfg(c)

\* the floor taken exclusive
KeepSimilarity_Strict(r, min_score) ==
  LET sc == safe_float(r.score)
  IN  IF ~sc.some THEN TRUE ELSE sc.v > min_score.v

KeepSimilarity(r, min_score) ==
  LET sc == safe_float(r.score)
  IN  IF ~sc.some THEN TRUE ELSE sc.v >= min_score.v

\* the ceiling taken exclusive
KeepDistance_Strict(r, max_distance) ==
  LET sc == safe_float(r.score)
  IN  IF ~sc.some THEN TRUE ELSE sc.v < max_distance.v

\* an unscored candidate dropped
KeepDistance_DropUnscored(r, max_distance) ==
  LET sc == safe_float(r.score)
  IN  sc.some /\ sc.v <= max_distance.v

KeepDistance(r, max_distance) ==
  LET sc == safe_float(r.score)
  IN  IF ~sc.some THEN TRUE ELSE sc.v <= max_distance.v

\* a filter in two passes: the scored candidates first, the unscored after
ThresholdFilter_TwoPass(c, results) ==
  LET score_type == ResolveScoreType(c, results)
      min_score == safe_float(c.min_score)
      max_distance == safe_float(c.max_distance)
      Scored(r) == safe_float(r.score).some
      Unscored(r) == ~safe_float(r.score).some
      KeepS(r) == Scored(r) /\ KeepSimilarity(r, min_score)
      KeepD(r) == Scored(r) /\ KeepDistance(r, max_distance)
  IN  IF score_type = "similarity" /\ min_score.some
        THEN SelectSeq(results, KeepS) \o SelectSeq(results, Unscored)
      ELSE IF score_type = "distance" /\ max_distance.some
        THEN SelectSeq(results, KeepD) \o SelectSeq(results, Unscored)
      ELSE results

\* the configured threshold applied whatever the resolved semantics
ThresholdFilter_AnyConfigured(c, results) ==
  LET min_score == safe_float(c.min_score)
      max_distance == safe_float(c.max_distance)
      KeepS(r) == KeepSimilarity(r, min_score)
      KeepD(r) == KeepDistance(r, max_distance)
  IN  IF min_score.some THEN SelectSeq(results, KeepS)
      ELSE IF max_distance.some THEN SelectSeq(results, KeepD)
      ELSE results

\* a default floor of 0.5 when no threshold is configured
ThresholdFilter_DefaultFloor(c, results) ==
  LET score_type == ResolveScoreType(c, results)
      min_score == safe_float(c.min_score)
      max_distance == safe_float(c.max_distance)
      KeepS(r) == KeepSimilarity(r, IF min_score.some THEN min_score
                                    ELSE Float(5))
      KeepD(r) == KeepDistance(r, max_distance)
  IN  IF score_type = "similarity" /\ (min_score.some \/ ~max_distance.some)
        THEN SelectSeq(results, KeepS)
      ELSE IF score_type = "distance" /\ max_distance.some
        THEN SelectSeq(results, KeepD)
      ELSE results

ThresholdFilter(c, results) ==
  LET score_type == ResolveScoreType(c, results)
      min_score == safe_float(c.min_score)
      max_distance == safe_float(c.max_distance)
      KeepS(r) == KeepSimilarity(r, min_score)
      KeepD(r) == KeepDistance(r, max_distance)
  IN  IF score_type = "similarity" /\ min_score.some
        THEN SelectSeq(results, KeepS)
      ELSE IF score_type = "distance" /\ max_distance.some
        THEN SelectSeq(results, KeepD)
      ELSE results

\* no fallback at all
SafetyNet_Missing(c, results, filtered) == filtered

\* a short list filled up with the first candidates
SafetyNet_Pads(c, results, filtered) ==
  IF Len(filtered) < c.min_results /\ results # <<>>
    THEN PySlice(results, c.min_results)
    ELSE filtered

\* a fallback to the last min_results candidates, results[-min_results:]
SafetyNet_Tail(c, results, filtered) ==
  IF filtered = <<>> /\ results # <<>> /\ c.min_results > 0
    THEN SubSeq(results, Max(Len(results) - c.min_results, 0) + 1, Len(results))
    ELSE filtered

SafetyNet(c, results, filtered) ==
  IF filtered = <<>> /\ results # <<>> /\ c.min_results > 0
    THEN PySlice(results, c.min_results)
    ELSE filtered

\* the final cap forgotten
FinalCap_Missing(c, filtered) == filtered

FinalCap(c, filtered) == PySlice(filtered, c.top_k)

Materialize(filtered) ==
  [i \in 1 .. Len(filtered) |->
     [id |-> filtered[i].id, text |-> Str(filtered[i].text),
      score |-> filtered[i].score,
      metadata |-> DictOrEmpty(filtered[i].metadata)]]

RetrieveOut(c, results) ==
  Materialize(FinalCap(c, SafetyNet(c, results, ThresholdFilter(c, results))))

(***************************************************************************)
(* Orchestrator: what its collaborators hand over.                         *)
(***************************************************************************)
ChunkTexts == {NoneStr, Str(<<>>), Str(<<" ">>), Str(<<" ", "a">>)}

ChunkScores == {NoneScore, Num(5)}

ChunkMetas ==
  {NoneMeta,
   [EmptyMeta EXCEPT !.source_file = "a.txt", !.file_path = "/d/a.txt"],
   [EmptyMeta EXCEPT !.source_file = "", !.file_name = "b.txt",
                     !.source_path = "/d/b.txt"]}

Chunks == [text : ChunkTexts, score : ChunkScores, metadata : ChunkMetas]

ChunkLists == UNION {[1 .. n -> Chunks] : n \in 0 .. MaxChunks}

Questions == {<<"q">>}

\* Optional[List[Dict[str, str]]]
NoneHistory == [some |-> FALSE, v |-> <<>>]

Histories ==
  {NoneHistory,
   [some |-> TRUE, v |-> <<>>],
   [some |-> TRUE, v |-> <<[role |-> "user", content |-> <<"h">>]>>],
   [some |-> TRUE, v |-> <<[role |-> "user", content |-> <<"h">>],
                           [role |-> "assistant", content |-> <<"r">>]>>]}

OrchInputs == [input : Questions, chat_history : Histories]

\* a counter of the usage mapping: absent, None, or a number
NoCount == [kind |-> "absent", v |-> 0]

NoneCount == [kind |-> "none", v |-> 0]

Count(n) == [kind |-> "num", v |-> n]

EmptyUsage ==
  [some |-> TRUE, prompt_tokens |-> NoCount, completion_tokens |-> NoCount,
   total_tokens |-> NoCount]

NoneUsage == [EmptyUsage EXCEPT !.some = FALSE]

Usages ==
  {NoneUsage,
   EmptyUsage,
   [EmptyUsage EXCEPT !.prompt_tokens = Count(3),
                      !.completion_tokens = Count(2),
                      !.total_tokens = Count(5)],
   [EmptyUsage EXCEPT !.prompt_tokens = Count(3)],
   [EmptyUsage EXCEPT !.prompt_tokens = Count(3),
                      !.total_tokens = NoneCount],
   [EmptyUsage EXCEPT !.prompt_tokens = Count(-1)]}

\* what retriever.retrieve does: returns a list or raises
NoException == "none"

RetrieveOutcomes ==
  [raises : {FALSE}, exc : {NoException}, chunks : ChunkLists]
    \cup {[raises |-> TRUE, exc |-> "ConnectionError", chunks |-> <<>>]}

\* what llm_client.chat does: returns (answer, usage) or raises
ChatOutcomes ==
  [raises : {FALSE}, exc : {NoException}, answer : {"dummy"}, usage : Usages]
    \cup {[raises |-> TRUE, exc |-> "APIError", answer |-> "",
           usage |-> NoneUsage]}

\* the constant of orchestrator.py:13-22, by its first sentence
FALLBACK_SYSTEM_PROMPT == <<"You are a RAG assistant.">>

(***************************************************************************)
(* The prompt files under files/prompts/ and load_system_prompt.           *)
(***************************************************************************)
DefaultPromptName == <<"default_sytem_prompt.txt">>

CustomPromptName == <<"custom.txt">>

PromptChars == {" ", "p"}

PromptContents == UNION {[1 .. n -> PromptChars] : n \in 0 .. MaxPromptLen}

MissingFile == [exists |-> FALSE, content |-> <<>>]

PromptFiles ==
  {MissingFile} \cup {[exists |-> TRUE, content |-> c] : c \in PromptContents}

PromptStores == [{DefaultPromptName, CustomPromptName} -> PromptFiles]

EmptyStore == [n \in {DefaultPromptName, CustomPromptName} |-> MissingFile]

\* cfg.get("prompt_system")
PromptSystems == {NoneStr, Str(<<>>), Str(<<" ", "custom.txt">>)}

\* the system_prompt argument of Orchestrator(...)
Overrides == {NoneStr, Str(<<>>), Str(<<"s">>)}

resolve_prompt_path(prompt_system) ==
  LET name == Strip(OrEmpty(prompt_system))
  IN  IF name = <<>> THEN DefaultPromptName ELSE name

\* an empty content returned as it is
load_system_prompt_NoFallback(prompt_system, files) ==
  LET f == files[resolve_prompt_path(prompt_system)]
  IN  IF ~f.exists THEN FALLBACK_SYSTEM_PROMPT ELSE Strip(f.content)

\* the content returned as read
load_system_prompt_Raw(prompt_system, files) ==
  LET f == files[resolve_prompt_path(prompt_system)]
  IN  IF ~f.exists THEN FALLBACK_SYSTEM_PROMPT
      ELSE IF f.content # <<>> THEN f.content ELSE FALLBACK_SYSTEM_PROMPT

load_system_prompt(prompt_system, files) ==
  LET f == files[resolve_prompt_path(prompt_system)]
  IN  IF ~f.exists THEN FALLBACK_SYSTEM_PROMPT
      ELSE LET content == Strip(f.content)
           IN  IF content # <<>> THEN content ELSE FALLBACK_SYSTEM_PROMPT

\* the arguments of a construction that has not run yet
PendingOrch(top_k, override, prompt_system, files) ==
  [built |-> FALSE, top_k |-> top_k, override |-> override,
   prompt_system |-> prompt_system, files |-> files,
   loaded |-> NoneStr, system_prompt |-> <<>>]

\* Orchestrator.__init__, lines 99-106
NewOrchestrator(args) ==
  LET explicit == args.override.some /\ args.override.v # <<>>
      loaded == load_system_prompt(args.prompt_system, args.files)
  IN  [args EXCEPT !.built = TRUE,
                   !.loaded = IF explicit THEN NoneStr ELSE Str(loaded),
                   !.system_prompt = IF explicit THEN args.override.v ELSE loaded]

\* the canned answer of orchestrator.py:157, written without its accents
NoDocumentAnswer == "Aucun document trouve pour cette requete."

ZeroUsage == [prompt_tokens |-> 0, completion_tokens |-> 0, total_tokens |-> 0]

(***************************************************************************)
(* Orchestrator._format_context                                            *)
(***************************************************************************)
Separator == "\n\n---\n\n"

SourceFile(meta) == PyOr(PyOr(meta.source_file, meta.file_name), "unknown")

SourcePath(meta) ==
  LET p == PyOr(meta.source_path, meta.file_path)
  IN  IF Truthy(p) THEN p ELSE ""

\* f"[{i}] source_file={source_file}\n"
SegmentHead(i, source_file) ==
  "[" \o ToString(i) \o "] source_file=" \o source_file \o "\n"

RECURSIVE Join(_, _)
Join(sep, parts) ==
  IF parts = <<>> THEN <<>>
  ELSE IF Len(parts) = 1 THEN parts[1]
       ELSE parts[1] \o <<sep>> \o Join(sep, Tail(parts))

\* citation numbers that start at 0
format_context_ZeroBased(chunks) ==
  LET meta(i) == DictOrEmpty(chunks[i].metadata)
      parts == [i \in 1 .. Len(chunks) |->
                  <<SegmentHead(i, SourceFile(meta(i)))>>
                    \o Strip(OrEmpty(chunks[i].text))]
      sources == [i \in 1 .. Len(chunks) |->
                    [ref |-> i - 1,
                     source_file |-> SourceFile(meta(i)),
                     source_path |-> SourcePath(meta(i)),
                     score |-> chunks[i].score,
                     metadata |-> meta(i)]]
  IN  [parts |-> parts, block |-> Join(Separator, parts), sources |-> sources]

format_context(chunks) ==
  LET meta(i) == DictOrEmpty(chunks[i].metadata)
      parts == [i \in 1 .. Len(chunks) |->
                  <<SegmentHead(i, SourceFile(meta(i)))>>
                    \o Strip(OrEmpty(chunks[i].text))]
      sources == [i \in 1 .. Len(chunks) |->
                    [ref |-> i,
                     source_file |-> SourceFile(meta(i)),
                     source_path |-> SourcePath(meta(i)),
                     score |-> chunks[i].score,
                     metadata |-> meta(i)]]
  IN  [parts |-> parts, block |-> Join(Separator, parts), sources |-> sources]

(***************************************************************************)
(* Orchestrator.build_messages                                             *)
(***************************************************************************)
\* the history appended after the question
build_messages_HistoryLast(system_prompt, orch_in, context_block) ==
  <<[role |-> "system", content |-> system_prompt]>>
    \o <<[role |-> "user",
          content |-> <<"QUESTION:\n">> \o orch_in.input
                        \o <<"\n\nCONTEXT:\n">> \o context_block]>>
    \o (IF orch_in.chat_history.some THEN orch_in.chat_history.v ELSE <<>>)

build_messages(system_prompt, orch_in, context_block) ==
  <<[role |-> "system", content |-> system_prompt]>>
    \o (IF orch_in.chat_history.some THEN orch_in.chat_history.v ELSE <<>>)
    \o <<[role |-> "user",
          content |-> <<"QUESTION:\n">> \o orch_in.input
                        \o <<"\n\nCONTEXT:\n">> \o context_block]>>

(***************************************************************************)
(* Orchestrator.run, lines 151-178.                                        *)
(***************************************************************************)
\* getattr(c, "text", None) is truthy
HasText(c) == c.text.some /\ c.text.v # <<>>

\* the empty-text chunks kept
KeptChunks_All(top_k, returned) == PySlice(returned, top_k)

\* lines 152-153
\* the cap applied before the empty texts are dropped
KeptChunks_CapFirst(top_k, returned) ==
  SelectSeq(PySlice(returned, top_k), HasText)

KeptChunks(top_k, returned) == PySlice(SelectSeq(returned, HasText), top_k)

\* usage.get(key), the default left out
UsageGet_NoDefault(c) == IF c.kind = "absent" THEN NoneCount ELSE c

\* usage.get(key, 0)
UsageGet(c) == IF c.kind = "absent" THEN Count(0) ELSE c

\* int(x) raises TypeError on None
IntRaises(c) == c.kind = "none"

UsageKeys == {"prompt_tokens", "completion_tokens", "total_tokens"}

\* usage = usage or {}
UsageOrEmpty(u) == IF u.some THEN u ELSE EmptyUsage

NormalizeRaises(u) ==
  \E k \in UsageKeys : IntRaises(UsageGet(UsageOrEmpty(u)[k]))

NormalizeUsage(u) ==
  [k \in UsageKeys |-> UsageGet(UsageOrEmpty(u)[k]).v]

NoRun ==
  [op |-> "none", input |-> <<>>, chat_history |-> NoneHistory,
   retrieve_calls |-> 0, returned |-> <<>>, chunks |-> <<>>,
   chat_calls |-> 0, messages |-> <<>>, parts |-> <<>>, block |-> <<>>,
   retr_exc |-> NoException, chat_exc |-> NoException,
   chat_usage |-> NoneUsage, raised |-> "none", exc |-> NoException,
   result |-> FALSE,
   answer |-> "", usage |-> ZeroUsage, sources |-> <<>>]

\* the emptiness test made on the list as the retriever returned it
ShortCircuit_Early(returned, chunks) == returned = <<>>

\* if not chunks
ShortCircuit(returned, chunks) == chunks = <<>>

\* the failure of retrieve caught and taken for an empty list
AfterRetrieveError_Swallowed(called, retr) ==
  [called EXCEPT !.result = TRUE, !.answer = NoDocumentAnswer]

\* line 151 stands in no try block: the exception leaves run
AfterRetrieveError(called, retr) ==
  [called EXCEPT !.raised = "retrieve", !.exc = retr.exc]

\* the failure of chat answered by a second call
AfterChatError_Retry(sent, chat) ==
  [sent EXCEPT !.chat_calls = 2, !.raised = "chat", !.exc = chat.exc]

\* lines 165-169 stand in no try block: the exception leaves run
AfterChatError(sent, chat) ==
  [sent EXCEPT !.raised = "chat", !.exc = chat.exc]

RunOutcome(o, orch_in, retr, chat) ==
  LET called == [NoRun EXCEPT !.op = "run", !.input = orch_in.input,
                              !.chat_history = orch_in.chat_history,
                              !.retrieve_calls = 1,
                              !.retr_exc = retr.exc]
      chunks == KeptChunks(o.top_k, retr.chunks)
      fc == format_context(chunks)
      sent == [called EXCEPT !.returned = retr.chunks, !.chunks = chunks,
                             !.parts = fc.parts, !.block = fc.block,
                             !.messages =
                               build_messages(o.system_prompt, orch_in, fc.block),
                             !.chat_calls = 1, !.chat_exc = chat.exc]
  IN  IF retr.raises THEN AfterRetrieveError(called, retr)
      ELSE IF ShortCircuit(retr.chunks, chunks)
        THEN [called EXCEPT !.returned = retr.chunks, !.chunks = chunks,
                            !.result = TRUE,
                            !.answer = NoDocumentAnswer,
                            !.usage = ZeroUsage, !.sources = <<>>]
      ELSE IF chat.raises THEN AfterChatError(sent, chat)
      ELSE IF NormalizeRaises(chat.usage)
        THEN [sent EXCEPT !.chat_usage = chat.usage, !.raised = "usage",
                          !.exc = "TypeError"]
      ELSE [sent EXCEPT !.chat_usage = chat.usage,
                        !.result = TRUE, !.answer = chat.answer,
                        !.usage = NormalizeUsage(chat.usage),
                        !.sources = fc.sources]

(***************************************************************************)
(* State after construction.                                               *)
(***************************************************************************)
NoRet ==
  [op |-> "none", input |-> NoneStr, query |-> <<>>, index_before |-> NoIndex,
   got_index |-> FALSE, searched |-> FALSE, handle |-> NoIndex,
   results |-> <<>>, score_type |-> "", passed |-> <<>>, out |-> <<>>]

NoOrch == NewOrchestrator(PendingOrch(0, NoneStr, NoneStr, EmptyStore))

\* Orchestrator(retriever, llm_client, config, top_k)
OrchConfigs ==
  {NewOrchestrator(PendingOrch(k, NoneStr, NoneStr, EmptyStore)) :
     k \in -1 .. MaxOrchTopK}

\* the constructions to come
PendingOrchs ==
  {PendingOrch(1, ov, ps, st) :
     ov \in Overrides, ps \in PromptSystems, st \in PromptStores}

\* the configuration the stubbed retriever of SpecOrch is left with
StubCfg ==
  [top_k |-> 0, min_results |-> 0, score_type |-> NoneType,
   min_score |-> NoneScore, max_distance |-> NoneScore]

\* the service before its first request
NoReq ==
  [pc |-> "idle", n |-> 0, user |-> <<>>, input |-> <<>>, status |-> 0,
   run_called |-> FALSE, retrieve_called |-> FALSE, chat_called |-> FALSE,
   r |-> 0, h |-> NoIndex, searched |-> NoIndex,
   floor |-> 0, expect |-> NoIndex]

NoAdm ==
  [pc |-> "idle", n |-> 0, op |-> "none", status |-> 0, mutated |-> FALSE,
   had |-> 0, deleted |-> 0, before |-> NoIndex, h |-> NoIndex,
   failed |-> "none", logged |-> FALSE]

\* what has been seen so far: the store version when the last successful
\* mutation returned, and the handle that was cached before the last
\* deletion whose rebuild failed
NoObs == [returned |-> 0, stale |-> NoIndex]

InitService ==
  /\ retriever = 1
  /\ retrievers = <<NoIndex>>
  /\ handles = <<>>
  /\ store = [file |-> TRUE, embeddings |-> 1, version |-> 0]
  /\ req = NoReq
  /\ adm = NoAdm
  /\ obs = NoObs

InitPrompt ==
  /\ cfg = StubCfg
  /\ index = NoIndex
  /\ created = 0
  /\ ret = NoRet
  /\ orch \in PendingOrchs
  /\ run = NoRun
  /\ InitService

InitOrch ==
  /\ cfg = StubCfg
  /\ index = NoIndex
  /\ created = 0
  /\ ret = NoRet
  /\ orch \in OrchConfigs
  /\ run = NoRun
  /\ InitService

Init ==
  /\ cfg \in Configs
  /\ index = NoIndex
  /\ created = 0
  /\ ret = NoRet
  /\ orch = NoOrch
  /\ run = NoRun
  /\ InitService

(***************************************************************************)
(* Retriever.retrieve(payload); results is the answer of the index search  *)
(***************************************************************************)
Retrieve(input, results) ==
  LET query == Strip(OrEmpty(input))
  IN  /\ ret.op = "none"
      /\ IF query = <<>>
           THEN /\ ret' = [NoRet EXCEPT !.op = "retrieve", !.input = input,
                                        !.index_before = index]
                /\ UNCHANGED <<cfg, index, created, orch, run>> /\ UNCHANGED apiVars
           ELSE LET h == get_index(index, created, FALSE)
                IN  /\ index' = h
                    /\ created' = IF h = index THEN created ELSE created + 1
                    /\ ret' = [op |-> "retrieve", input |-> input,
                               query |-> query, index_before |-> index,
                               got_index |-> TRUE, searched |-> TRUE,
                               handle |-> h, results |-> results,
                               score_type |-> ResolveScoreType(cfg, results),
                               passed |-> ThresholdFilter(cfg, results),
                               out |-> RetrieveOut(cfg, results)]
                    /\ UNCHANGED <<cfg, orch, run>> /\ UNCHANGED apiVars

\* the caller takes the list retrieve returned; the next call may start
RetrieveReturn ==
  /\ ret.op = "retrieve"
  /\ ret' = NoRet
  /\ UNCHANGED <<cfg, index, created, orch, run>> /\ UNCHANGED apiVars

\* no call of retrieve is in progress
RetrieverIdle == ret.op = "none"

Next ==
  \/ RetrieverIdle /\ \E input \in Inputs, results \in ResultLists :
                        Retrieve(input, results)
  \/ RetrieveReturn

Spec == Init /\ [][Next]_vars

(***************************************************************************)
(* One Retriever over its life: retrieve calls and forced rebuilds of the  *)
(* index handle, one call at a time.                                       *)
(***************************************************************************)
IndexConfigs ==
  {c \in Configs : /\ c.top_k \in {1, 2}
                    /\ c.min_results = 1
                    /\ c.score_type = "similarity"
                    /\ c.max_distance = NoneScore}

IndexResults == NodeLists(0) \cup NodeLists(1)

InitIndex ==
  /\ cfg \in IndexConfigs
  /\ index = NoIndex
  /\ created = 0
  /\ ret = NoRet
  /\ orch = NoOrch
  /\ run = NoRun
  /\ InitService

\* _get_index(rebuild=True)
Rebuild ==
  LET h == get_index(index, created, TRUE)
  IN  /\ created < MaxHandles
      /\ index' = h
      /\ created' = IF h = index THEN created ELSE created + 1
      /\ ret' = [NoRet EXCEPT !.op = "rebuild", !.index_before = index,
                              !.got_index = TRUE, !.handle = h]
      /\ UNCHANGED <<cfg, orch, run>> /\ UNCHANGED apiVars

\* the caller takes the handle; the next call may start
RebuildReturn ==
  /\ ret.op = "rebuild"
  /\ ret' = NoRet
  /\ UNCHANGED <<cfg, index, created, orch, run>> /\ UNCHANGED apiVars

NextIndex ==
  \/ RetrieverIdle /\ \E input \in Inputs, results \in IndexResults :
                        Retrieve(input, results)
  \/ RetrieveReturn
  \/ RetrieverIdle /\ Rebuild
  \/ RebuildReturn

SpecIndex == InitIndex /\ [][NextIndex]_vars

(***************************************************************************)
(* The Orchestrator with a stubbed retriever and a stubbed chat client, as *)
(* in the local test of orchestrator.py.                                   *)
(***************************************************************************)
Run(orch_in, retr, chat) ==
  /\ run.op = "none"
  /\ run' = RunOutcome(orch, orch_in, retr, chat)
  /\ UNCHANGED <<cfg, index, created, ret, orch>> /\ UNCHANGED apiVars

\* a direct call of _format_context on a chunk list
FormatContext(chunks) ==
  /\ run.op = "none"
  /\ LET fc == format_context(chunks)
     IN  run' = [NoRun EXCEPT !.op = "format", !.chunks = chunks,
                              !.parts = fc.parts, !.block = fc.block,
                              !.sources = fc.sources]
  /\ UNCHANGED <<cfg, index, created, ret, orch>> /\ UNCHANGED apiVars

\* the caller takes the result (or the exception); the next call may start
RunReturn ==
  /\ run.op # "none"
  /\ run' = NoRun
  /\ UNCHANGED <<cfg, index, created, ret, orch>> /\ UNCHANGED apiVars

\* no call of the orchestrator is in progress
OrchestratorIdle == run.op = "none"

NextOrch ==
  \/ OrchestratorIdle /\ \E orch_in \in OrchInputs, retr \in RetrieveOutcomes,
                             chat \in ChatOutcomes : Run(orch_in, retr, chat)
  \/ OrchestratorIdle /\ \E chunks \in ChunkLists : FormatContext(chunks)
  \/ RunReturn

SpecOrch == InitOrch /\ [][NextOrch]_vars

(***************************************************************************)
(* The construction of an Orchestrator over a prompt store.                *)
(***************************************************************************)
Construct ==
  /\ ~orch.built
  /\ orch' = NewOrchestrator(orch)
  /\ UNCHANGED <<cfg, index, created, ret, run>> /\ UNCHANGED apiVars

NextPrompt == Construct

SpecPrompt == InitPrompt /\ [][NextPrompt]_vars

(***************************************************************************)
(* The running service: POST /v1/chat/completions on one thread, the admin *)
(* endpoints on another.  retrievers[i] is the _index attribute of the     *)
(* i-th Retriever object, handles[h] the h-th VectorStoreIndex, retriever  *)
(* the object orchestrator.retriever points to.  Each step is one access   *)
(* to state the two threads share.                                         *)
(***************************************************************************)
\* the raw file exists, the embeddings of it, the number of changes so far
Stores == [file : BOOLEAN, embeddings : 0 .. 1, version : {0}]

\* a VectorStoreIndex under construction over the store as it is
NewHandle(st) == [ready |-> FALSE, built_at |-> st.version]

Users == {<<>>, <<" ">>, <<"u">>}

ApiInputs == {<<>>, <<" ">>, <<"q">>}

InitApi ==
  /\ cfg = StubCfg
  /\ index = NoIndex
  /\ created = 0
  /\ ret = NoRet
  /\ orch = NoOrch
  /\ run = NoRun
  /\ retriever = 1
  /\ retrievers = <<NoIndex>>
  /\ handles = <<>>
  /\ store \in Stores
  /\ req = NoReq
  /\ adm = NoAdm
  /\ obs = NoObs

\* only the input field checked
Validate_InputOnly(user, input) == IF Strip(input) = <<>> THEN 400 ELSE 0

\* main.py:98-101; 0 when the request passes
Validate(user, input) ==
  IF Strip(user) = <<>> THEN 400
  ELSE IF Strip(input) = <<>> THEN 400
  ELSE 0

\* the handle under construction stored at once
IndexDuringBuild_Early(old, h) == h

\* self._index between the start of a construction and its assignment
IndexDuringBuild(old, h) == old

\* the failure leaving the handler
RebuildFailed_Raises(a, stage) ==
  [a EXCEPT !.failed = stage, !.status = 500, !.pc = "done"]

\* admin.py:206-207
RebuildFailed(a, stage) ==
  [a EXCEPT !.failed = stage, !.logged = TRUE, !.pc = "return"]

\* chat_completions up to the read of orchestrator.retriever in run
ChatCompletions(user, input) ==
  /\ req' = IF Validate(user, input) # 0
            THEN [NoReq EXCEPT !.n = req.n, !.pc = "done", !.user = user,
                               !.input = input,
                               !.status = Validate(user, input)]
            ELSE [NoReq EXCEPT !.n = req.n, !.pc = "get_index",
                               !.user = user, !.input = input,
                               !.run_called = TRUE, !.retrieve_called = TRUE,
                               !.r = retriever, !.floor = obs.returned,
                               !.expect = obs.stale]
  /\ UNCHANGED <<retriever, retrievers, handles, store, adm, obs>>
  /\ UNCHANGED coreVars

\* _get_index(), retriever.py:90-96
ReqGetIndex ==
  /\ req.pc = "get_index"
  /\ IF retrievers[req.r] # NoIndex
     THEN /\ req' = [req EXCEPT !.h = retrievers[req.r], !.pc = "search"]
          /\ UNCHANGED <<retrievers, handles>>
     ELSE /\ handles' = Append(handles, NewHandle(store))
          /\ retrievers' =
               [retrievers EXCEPT
                  ![req.r] = IndexDuringBuild(@, Len(handles) + 1)]
          /\ req' = [req EXCEPT !.h = Len(handles) + 1, !.pc = "build"]
  /\ UNCHANGED <<retriever, store, adm, obs>>
  /\ UNCHANGED coreVars

\* _get_index(), retriever.py:99-102
ReqBuild(ok) ==
  /\ req.pc = "build"
  /\ IF ok
     THEN /\ handles' = [handles EXCEPT ![req.h].ready = TRUE]
          /\ retrievers' = [retrievers EXCEPT ![req.r] = req.h]
          /\ req' = [req EXCEPT !.pc = "return_index"]
     ELSE /\ req' = [req EXCEPT !.h = NoIndex, !.status = 500, !.pc = "done"]
          /\ UNCHANGED <<retrievers, handles>>
  /\ UNCHANGED <<retriever, store, adm, obs>>
  /\ UNCHANGED coreVars

\* _get_index(), retriever.py:103
ReqReturnIndex ==
  /\ req.pc = "return_index"
  /\ req' = [req EXCEPT !.h = retrievers[req.r], !.pc = "search"]
  /\ UNCHANGED <<retriever, retrievers, handles, store, adm, obs>>
  /\ UNCHANGED coreVars

\* the search of retriever.py:144-145 and what follows it in run
ReqSearch(chunks, chat_ok) ==
  /\ req.pc = "search"
  /\ req' = [req EXCEPT !.searched = req.h, !.chat_called = chunks > 0,
                        !.status = IF chunks > 0 /\ ~chat_ok THEN 500
                                   ELSE 200,
                        !.pc = "done"]
  /\ UNCHANGED <<retriever, retrievers, handles, store, adm, obs>>
  /\ UNCHANGED coreVars

\* the response is sent
ReqDone ==
  /\ req.pc = "done"
  /\ req' = [NoReq EXCEPT !.n = req.n + 1]
  /\ UNCHANGED <<retriever, retrievers, handles, store, adm, obs>>
  /\ UNCHANGED coreVars

RequestIdle == req.pc = "idle" /\ req.n < MaxRequests

\* a new operation of the admin thread
AdminOp(op) == [NoAdm EXCEPT !.n = adm.n, !.op = op, !.pc = "done"]

\* DELETE /admin/raw-files/{rel_path}, admin.py:143-191
DeleteRawFile(chroma_ok) ==
  /\ IF ~store.file
     THEN /\ adm' = [AdminOp("delete") EXCEPT !.status = 404]
          /\ UNCHANGED store
     ELSE IF ~chroma_ok
     THEN /\ store' = [store EXCEPT !.file = FALSE]
          /\ adm' = [AdminOp("delete") EXCEPT !.status = 500]
     ELSE /\ store' = [file |-> FALSE, embeddings |-> 0,
                       version |-> store.version + 1]
          /\ adm' = [AdminOp("delete") EXCEPT
                       !.pc = "new_retriever", !.mutated = TRUE,
                       !.had = store.embeddings,
                       !.deleted = store.embeddings,
                       !.before = retrievers[retriever]]
  /\ UNCHANGED <<retriever, retrievers, handles, req, obs>>
  /\ UNCHANGED coreVars

\* admin.py:197-201
DeleteNewRetriever(ok) ==
  /\ adm.pc = "new_retriever"
  /\ IF ok
     THEN /\ retrievers' = Append(retrievers, NoIndex)
          /\ retriever' = Len(retrievers) + 1
          /\ adm' = [adm EXCEPT !.pc = "rebuild"]
     ELSE /\ adm' = RebuildFailed(adm, "create")
          /\ UNCHANGED <<retriever, retrievers>>
  /\ UNCHANGED <<handles, store, req, obs>>
  /\ UNCHANGED coreVars

\* admin.py:202, _get_index(rebuild=True), retriever.py:90-96
DeleteRebuild ==
  /\ adm.pc = "rebuild"
  /\ handles' = Append(handles, NewHandle(store))
  /\ retrievers' =
       [retrievers EXCEPT ![retriever] = IndexDuringBuild(@, Len(handles) + 1)]
  /\ adm' = [adm EXCEPT !.h = Len(handles) + 1, !.pc = "rebuild_finish"]
  /\ UNCHANGED <<retriever, store, req, obs>>
  /\ UNCHANGED coreVars

\* _get_index(rebuild=True), retriever.py:99-103
DeleteRebuildFinish(ok) ==
  /\ adm.pc = "rebuild_finish"
  /\ IF ok
     THEN /\ handles' = [handles EXCEPT ![adm.h].ready = TRUE]
          /\ retrievers' = [retrievers EXCEPT ![retriever] = adm.h]
          /\ adm' = [adm EXCEPT !.pc = "return"]
     ELSE /\ adm' = RebuildFailed(adm, "build")
          /\ UNCHANGED <<retrievers, handles>>
  /\ UNCHANGED <<retriever, store, req, obs>>
  /\ UNCHANGED coreVars

\* admin.py:211-216
DeleteReturn ==
  /\ adm.pc = "return"
  /\ adm' = [adm EXCEPT !.status = 200, !.pc = "done"]
  /\ UNCHANGED <<retriever, retrievers, handles, store, req, obs>>
  /\ UNCHANGED coreVars

\* POST /admin/ingest/{rel_path}, admin.py:221-249
IngestFile(ok) ==
  /\ store.embeddings < MaxEmbeddings
  /\ IF ~store.file
     THEN /\ adm' = [AdminOp("ingest") EXCEPT !.status = 404]
          /\ UNCHANGED store
     ELSE IF ~ok
     THEN /\ adm' = [AdminOp("ingest") EXCEPT !.status = 500]
          /\ UNCHANGED store
     ELSE /\ store' = [store EXCEPT !.embeddings = @ + 1, !.version = @ + 1]
          /\ adm' = [AdminOp("ingest") EXCEPT !.status = 200,
                                              !.mutated = TRUE]
  /\ UNCHANGED <<retriever, retrievers, handles, req, obs>>
  /\ UNCHANGED coreVars

\* POST /admin/raw-files/upload-and-ingest, admin.py:253-301
UploadAndIngest(named, ok) ==
  /\ store.embeddings < MaxEmbeddings
  /\ IF ~named
     THEN /\ adm' = [AdminOp("upload_ingest") EXCEPT !.status = 400]
          /\ UNCHANGED store
     ELSE IF ~ok
     THEN /\ store' = [store EXCEPT !.file = FALSE]
          /\ adm' = [AdminOp("upload_ingest") EXCEPT !.status = 500]
     ELSE /\ store' = [file |-> TRUE, embeddings |-> store.embeddings + 1,
                       version |-> store.version + 1]
          /\ adm' = [AdminOp("upload_ingest") EXCEPT !.status = 200,
                                                     !.mutated = TRUE]
  /\ UNCHANGED <<retriever, retrievers, handles, req, obs>>
  /\ UNCHANGED coreVars

\* DELETE /admin/vector/reset, admin.py:305-319
ResetVectorStore ==
  /\ store' = [store EXCEPT !.embeddings = 0, !.version = @ + 1]
  /\ adm' = [AdminOp("reset") EXCEPT !.status = 200, !.mutated = TRUE,
                                     !.had = store.embeddings]
  /\ UNCHANGED <<retriever, retrievers, handles, req, obs>>
  /\ UNCHANGED coreVars

\* DELETE /admin/vector/file/{rel_path}, admin.py:324-352; matched counts
\* the embeddings whose metadata "name" equals the file name
DeleteVectorsForRawFile(matched) ==
  /\ IF ~store.file
     THEN /\ adm' = [AdminOp("delete_vectors") EXCEPT !.status = 404]
          /\ UNCHANGED store
     ELSE /\ store' = [store EXCEPT
                         !.embeddings = @ - matched,
                         !.version = IF matched > 0 THEN @ + 1 ELSE @]
          /\ adm' = [AdminOp("delete_vectors") EXCEPT
                       !.status = 200, !.mutated = matched > 0,
                       !.had = store.embeddings, !.deleted = matched]
  /\ UNCHANGED <<retriever, retrievers, handles, req, obs>>
  /\ UNCHANGED coreVars

\* DELETE /admin/vector/wipe, admin.py:355-380
WipeVectorStore ==
  /\ store' = [store EXCEPT !.embeddings = 0, !.version = @ + 1]
  /\ adm' = [AdminOp("wipe") EXCEPT !.status = 200, !.mutated = TRUE,
                                    !.had = store.embeddings]
  /\ UNCHANGED <<retriever, retrievers, handles, req, obs>>
  /\ UNCHANGED coreVars

\* the response is sent
AdminDone ==
  /\ adm.pc = "done"
  /\ adm' = [NoAdm EXCEPT !.n = adm.n + 1]
  /\ obs' = [returned |-> IF adm.status = 200 /\ adm.mutated
                          THEN store.version ELSE obs.returned,
             stale |-> IF adm.op # "delete" \/ adm.status \notin {200, 500}
                          \/ adm.pc = "idle" \/ ~adm.mutated
                       THEN obs.stale
                       ELSE IF adm.failed # "none" THEN adm.before
                       ELSE NoIndex]
  /\ UNCHANGED <<retriever, retrievers, handles, store, req>>
  /\ UNCHANGED coreVars

AdminIdle == adm.pc = "idle" /\ adm.n < MaxAdminOps

NextApi ==
  \/ RequestIdle /\ \E user \in Users, input \in ApiInputs :
       ChatCompletions(user, input)
  \/ ReqGetIndex
  \/ \E ok \in BOOLEAN : ReqBuild(ok)
  \/ ReqReturnIndex
  \/ \E chunks \in 0 .. 1, chat_ok \in BOOLEAN : ReqSearch(chunks, chat_ok)
  \/ ReqDone
  \/ AdminIdle /\ \E chroma_ok \in BOOLEAN : DeleteRawFile(chroma_ok)
  \/ \E ok \in BOOLEAN : DeleteNewRetriever(ok)
  \/ DeleteRebuild
  \/ \E ok \in BOOLEAN : DeleteRebuildFinish(ok)
  \/ DeleteReturn
  \/ AdminIdle /\ \E ok \in BOOLEAN : IngestFile(ok)
  \/ AdminIdle /\ \E named, ok \in BOOLEAN : UploadAndIngest(named, ok)
  \/ AdminIdle /\ ResetVectorStore
  \/ AdminIdle /\ \E matched \in {0, store.embeddings} :
       DeleteVectorsForRawFile(matched)
  \/ AdminIdle /\ WipeVectorStore
  \/ AdminDone

SpecApi == InitApi /\ [][NextApi]_vars

(***************************************************************************)
(* Vocabulary of the properties of Retriever.retrieve.  It is stated over  *)
(* the candidates and the configuration, not through the operators above.  *)
(***************************************************************************)
Ids(s) == [i \in 1 .. Len(s) |-> s[i].id]

\* the first k elements of s, none when k <= 0
FirstK(s, k) == SubSeq(s, 1, Max(Min(k, Len(s)), 0))

Searched == ret.op = "retrieve" /\ ret.searched

Blank(input) ==
  ~input.some \/ \A i \in 1 .. Len(input.v) : input.v[i] \in {" ", "\n"}

Numeric(r) == r.score.kind = "num"

MeetsMinScore(r) == ~Numeric(r) \/ r.score.v >= cfg.min_score.v

MeetsMaxDistance(r) == ~Numeric(r) \/ r.score.v <= cfg.max_distance.v

SimilarityActive == ret.score_type = "similarity" /\ cfg.min_score.kind = "num"

DistanceActive == ret.score_type = "distance" /\ cfg.max_distance.kind = "num"

\* the candidates that pass the active threshold; all of them when none is active
Survivors ==
  IF SimilarityActive THEN SelectSeq(ret.results, MeetsMinScore)
  ELSE IF DistanceActive THEN SelectSeq(ret.results, MeetsMaxDistance)
  ELSE ret.results

AllFilteredOut == Searched /\ ret.results # <<>> /\ Survivors = <<>>

\* every returned chunk is the candidate of its id
FaithfulCopies ==
  \A i \in 1 .. Len(ret.out) :
    /\ ret.out[i].id \in 1 .. Len(ret.results)
    /\ ret.out[i].score = ret.results[ret.out[i].id].score
    /\ ret.out[i].text = Str(ret.results[ret.out[i].id].text)
    /\ ret.out[i].metadata = ret.results[ret.out[i].id].metadata

\* C1: with top_k >= 0, retrieve returns at most top_k chunks, whichever
\* filtering branch or fallback was taken.
C1_AtMostTopK ==
  (ret.op = "retrieve" /\ cfg.top_k >= 0) => Len(ret.out) <= cfg.top_k

C1_Witness ==
  /\ Searched
  /\ cfg.top_k >= 1
  /\ Len(Survivors) > cfg.top_k
  /\ Len(ret.out) = cfg.top_k

\* C2 (as stated): whenever the index returns at least one candidate,
\* retrieve returns at least min(min_results, number of candidates) chunks.
C2_Original ==
  (Searched /\ ret.results # <<>>)
    => Len(ret.out) >= Min(cfg.min_results, Len(ret.results))

\* C2 (amended): retrieve returns at least min(min_results, top_k, p) chunks,
\* p being the number of candidates that pass the active threshold, or the
\* number of all candidates when none passes or no threshold is active.
C2_Floor ==
  (Searched /\ ret.results # <<>>)
    => Len(ret.out) >=
         Min(Min(cfg.min_results, cfg.top_k),
             IF Survivors # <<>> THEN Len(Survivors) ELSE Len(ret.results))

C2_Witness ==
  /\ AllFilteredOut
  /\ cfg.min_results = 2
  /\ cfg.top_k >= 2
  /\ Len(ret.out) = 2

\* C3: the returned chunks are a subsequence of the candidate list: each is
\* a copy of a candidate and their ranks strictly increase along the result.
C3_Subsequence ==
  Searched =>
    /\ FaithfulCopies
    /\ \A i, j \in 1 .. Len(ret.out) : i < j => ret.out[i].id < ret.out[j].id

C3_Witness ==
  /\ Searched
  /\ SimilarityActive
  /\ Len(ret.results) = 3
  /\ ~Numeric(ret.results[3])
  /\ Ids(ret.out) = <<1, 3>>

\* C6: a blank or absent question yields an empty list, with no call of
\* _get_index, no search, and the cached handle left as it was.
C6_BlankQuestion ==
  (ret.op = "retrieve" /\ Blank(ret.input)) =>
    /\ ret.out = <<>>
    /\ ~ret.got_index
    /\ ~ret.searched
    /\ index = ret.index_before

C6_Witness ==
  /\ ret.op = "retrieve"
  /\ ret.input = Str(<<" ">>)
  /\ ret.out = <<>>
  /\ index = NoIndex

\* C7 (as stated): when the threshold removed every candidate and
\* min_results > 0, the result is the first min_results candidates cut to
\* top_k, and the top-ranked candidate is the first returned chunk.
C7_Original ==
  (AllFilteredOut /\ cfg.min_results > 0) =>
    /\ Ids(ret.out) = FirstK(FirstK(Ids(ret.results), cfg.min_results), cfg.top_k)
    /\ ret.out # <<>>
    /\ ret.out[1].id = 1

\* C7 (amended): in that case, with top_k >= 0 the result is the first
\* min(min_results, top_k) candidates in their order, and with top_k >= 1
\* the top-ranked candidate is the first returned chunk.
C7_Fallback ==
  (AllFilteredOut /\ cfg.min_results > 0) =>
    /\ cfg.top_k >= 0 =>
         /\ Ids(ret.out) =
              FirstK(FirstK(Ids(ret.results), cfg.min_results), cfg.top_k)
         /\ FaithfulCopies
    /\ cfg.top_k >= 1 => (ret.out # <<>> /\ ret.out[1].id = 1)

C7_Witness ==
  /\ AllFilteredOut
  /\ SimilarityActive
  /\ cfg.min_results = 1
  /\ cfg.top_k = 2
  /\ Len(ret.results) = 3
  /\ Ids(ret.out) = <<1>>

\* C8 (as stated): in similarity mode with min_score configured and a
\* candidate passing, the result is the first top_k of the candidates whose
\* score is >= min_score or not numeric.
C8_Original ==
  (Searched /\ SimilarityActive /\ Survivors # <<>>) =>
    /\ Ids(ret.out) = FirstK(Ids(SelectSeq(ret.results, MeetsMinScore)), cfg.top_k)
    /\ FaithfulCopies

\* C8 (amended): the same, for top_k >= 0.
C8_Similarity ==
  (Searched /\ SimilarityActive /\ Survivors # <<>> /\ cfg.top_k >= 0) =>
    /\ Ids(ret.out) = FirstK(Ids(SelectSeq(ret.results, MeetsMinScore)), cfg.top_k)
    /\ FaithfulCopies

\* a candidate at exactly min_score is returned, one below it is left out
C8_Witness ==
  /\ Searched
  /\ SimilarityActive
  /\ Len(ret.results) = 3
  /\ ret.results[1].score = Num(4)
  /\ ret.results[2].score = cfg.min_score
  /\ Ids(ret.out) = <<2, 3>>

\* C9 (as stated): in distance mode with max_distance configured and a
\* candidate passing, the result is the first top_k of the candidates whose
\* score is <= max_distance or not numeric.
C9_Original ==
  (Searched /\ DistanceActive /\ Survivors # <<>>) =>
    /\ Ids(ret.out) =
         FirstK(Ids(SelectSeq(ret.results, MeetsMaxDistance)), cfg.top_k)
    /\ FaithfulCopies

\* C9 (amended): the same, for top_k >= 0.
C9_Distance ==
  (Searched /\ DistanceActive /\ Survivors # <<>> /\ cfg.top_k >= 0) =>
    /\ Ids(ret.out) =
         FirstK(Ids(SelectSeq(ret.results, MeetsMaxDistance)), cfg.top_k)
    /\ FaithfulCopies

\* a candidate at exactly max_distance is returned, one above it is left out
C9_Witness ==
  /\ Searched
  /\ DistanceActive
  /\ Len(ret.results) = 3
  /\ ret.results[1].score = Num(16)
  /\ ret.results[2].score = cfg.max_distance
  /\ Ids(ret.out) = <<2, 3>>

\* C10: under "auto" the batch is taken as distance exactly when some
\* numeric score exceeds 1.5, as similarity otherwise; an explicit
\* "similarity" or "distance" is used whatever the scores are.
C10_ScoreType ==
  Searched =>
    IF cfg.score_type \in {"similarity", "distance"}
      THEN ret.score_type = cfg.score_type
      ELSE /\ ret.score_type \in {"similarity", "distance"}
           /\ ret.score_type = "distance" <=>
                \E i \in 1 .. Len(ret.results) :
                  Numeric(ret.results[i]) /\ ret.results[i].score.v > AutoCut

\* a batch whose maximum is exactly 1.5 is taken as similarity
C10_Witness ==
  /\ Searched
  /\ cfg.score_type = "auto"
  /\ Len(ret.results) = 2
  /\ ret.results[1].score = Num(15)
  /\ ret.results[2].score = Num(5)
  /\ ret.score_type = "similarity"

(***************************************************************************)
(* Properties of the Orchestrator.                                         *)
(***************************************************************************)
\* run got a list from the retriever
Retrieved == run.op = "run" /\ run.raised # "retrieve"

\* _format_context has produced a context block and its sources
Formatted ==
  \/ run.op = "format"
  \/ run.op = "run" /\ run.result /\ run.chat_calls = 1

\* the segments of a context block: what stands between two separators
RECURSIVE SplitBlock(_, _)
SplitBlock(block, current) ==
  IF block = <<>> THEN <<current>>
  ELSE IF Head(block) = Separator
         THEN <<current>> \o SplitBlock(Tail(block), <<>>)
         ELSE SplitBlock(Tail(block), Append(current, Head(block)))

Segments(block) == IF block = <<>> THEN <<>> ELSE SplitBlock(block, <<>>)

\* C4: when no chunk is left after the empty-text chunks are dropped and
\* the list is capped, run returns the canned answer, all-zero usage and no
\* source, and the chat client was not called.
C4_NoChunkNoChat ==
  (Retrieved /\ run.chunks = <<>>) =>
    /\ run.result
    /\ run.answer = NoDocumentAnswer
    /\ run.usage = ZeroUsage
    /\ run.sources = <<>>
    /\ run.chat_calls = 0
    /\ run.messages = <<>>

\* the retriever returned chunks, none of them usable
C4_Witness ==
  /\ Retrieved
  /\ Len(run.returned) = 2
  /\ run.chunks = <<>>
  /\ orch.top_k >= 1
  /\ run.result
  /\ run.chat_calls = 0

ChatCalled == run.op = "run" /\ run.chat_calls >= 1

\* the caller-supplied history, empty when absent
HistoryOf(r) == IF r.chat_history.some THEN r.chat_history.v ELSE <<>>

\* C11: the message sequence has |H| + 2 turns: the system turn with the
\* resolved system prompt, the turns of H unchanged and in order, then one
\* user turn with the question under QUESTION and the block under CONTEXT.
C11_Messages ==
  ChatCalled =>
    LET H == HistoryOf(run)
        n == Len(run.messages)
    IN  /\ n = Len(H) + 2
        /\ run.messages[1].role = "system"
        /\ run.messages[1].content = orch.system_prompt
        /\ \A i \in 1 .. Len(H) : run.messages[i + 1] = H[i]
        /\ run.messages[n].role = "user"
        /\ run.messages[n].content =
             <<"QUESTION:\n">> \o run.input \o <<"\n\nCONTEXT:\n">> \o run.block

C11_Witness ==
  /\ ChatCalled
  /\ Len(HistoryOf(run)) = 2
  /\ Len(run.messages) = 4
  /\ run.messages[3].role = "assistant"
  /\ run.messages[4].role = "user"

\* a counter the client gave, as a non-negative integer
CounterGiven(c) == c.kind = "num" /\ c.v >= 0

\* the usage of the client is absent, or each counter is missing or a
\* non-negative integer
WellFormedUsage(u) ==
  \A k \in UsageKeys : u[k].kind = "absent" \/ CounterGiven(u[k])

\* chat returned its pair (answer, usage)
ChatReturned == ChatCalled /\ run.raised \in {"none", "usage"}

C15_SingleAttempt ==
  run.op = "run" =>
    /\ run.retrieve_calls = 1
    /\ run.chat_calls \in {0, 1}
    /\ run.retr_exc # NoException =>
         /\ run.raised = "retrieve"
         /\ run.exc = run.retr_exc
         /\ run.chat_calls = 0
         /\ ~run.result
    /\ (run.chat_calls >= 1 /\ run.chat_exc # NoException) =>
         /\ run.raised = "chat"
         /\ run.exc = run.chat_exc
         /\ run.chat_calls = 1
         /\ ~run.result

C15_Witness ==
  /\ run.op = "run"
  /\ run.raised = "chat"
  /\ run.exc = "APIError"
  /\ run.chat_calls = 1
  /\ ~run.result

\* the failure of retrieve reaches the caller
C15_WitnessRetrieve ==
  /\ run.op = "run"
  /\ run.raised = "retrieve"
  /\ run.chat_calls = 0

(***************************************************************************)
(* Properties of load_system_prompt and of the construction.               *)
(***************************************************************************)
\* the file the configured name resolves to
ResolvedFile ==
  orch.files[IF Blank(orch.prompt_system) THEN DefaultPromptName
             ELSE CustomPromptName]

\* the construction called load_system_prompt
Loaded == orch.built /\ orch.loaded.some

NonSpaceAt(s) == {i \in 1 .. Len(s) : s[i] \notin {" ", "\n"}}

Least(S) == CHOOSE i \in S : \A j \in S : i <= j

Greatest(S) == CHOOSE i \in S : \A j \in S : i >= j

\* s without its trailing whitespace
TrimEnd(s) ==
  IF NonSpaceAt(s) = {} THEN <<>> ELSE SubSeq(s, 1, Greatest(NonSpaceAt(s)))

\* s without its leading and trailing whitespace
Trim(s) ==
  IF NonSpaceAt(s) = {} THEN <<>>
  ELSE SubSeq(s, Least(NonSpaceAt(s)), Greatest(NonSpaceAt(s)))

\* C13: load_system_prompt returns the fallback constant when the resolved
\* file is missing or empty, and an Orchestrator built without a non-empty
\* explicit system prompt never holds an empty one.
C13_Fallback ==
  /\ (Loaded /\ (~ResolvedFile.exists \/ ResolvedFile.content = <<>>))
       => orch.loaded.v = FALLBACK_SYSTEM_PROMPT
  /\ Loaded => (orch.system_prompt = orch.loaded.v /\ orch.system_prompt # <<>>)
  /\ (orch.built /\ (~orch.override.some \/ orch.override.v = <<>>)) => Loaded

\* an empty file under the configured name
C13_Witness ==
  /\ Loaded
  /\ ~Blank(orch.prompt_system)
  /\ orch.files[CustomPromptName] = [exists |-> TRUE, content |-> <<>>]
  /\ orch.files[DefaultPromptName].content = <<"p">>
  /\ orch.system_prompt = FALLBACK_SYSTEM_PROMPT

\* C14 (as stated): a non-empty file content is returned with nothing
\* changed but its trailing whitespace; its leading characters are kept.
C14_Original ==
  (Loaded /\ ResolvedFile.exists /\ ResolvedFile.content # <<>>)
    => orch.loaded.v = TrimEnd(ResolvedFile.content)

\* C14 (amended): a non-empty file content is returned without its leading
\* and trailing whitespace, nothing else changed; a content of whitespace
\* only gives the fallback prompt.
C14_Stripped ==
  (Loaded /\ ResolvedFile.exists /\ ResolvedFile.content # <<>>)
    => orch.loaded.v =
         IF Trim(ResolvedFile.content) # <<>> THEN Trim(ResolvedFile.content)
         ELSE FALLBACK_SYSTEM_PROMPT

C14_Witness ==
  /\ Loaded
  /\ ResolvedFile.content = <<"p", " ", "p">>
  /\ orch.loaded.v = <<"p", " ", "p">>

(***************************************************************************)
(* Properties of the running service.                                      *)
(***************************************************************************)
\* the request thread reached the search
AtSearch == req.pc = "search" \/ (req.pc = "done" /\ req.searched # NoIndex)

SearchHandle == IF req.pc = "search" THEN req.h ELSE req.searched

FullyConstructed(h) == h \in 1 .. Len(handles) /\ handles[h].ready

\* C16: whatever the interleaving of a request with the rebuild of the
\* delete endpoint, the request searches through a handle that exists and is
\* fully constructed, never through a partial or absent one.
C16_NoPartialHandle == AtSearch => FullyConstructed(SearchHandle)

\* a request searching on the new Retriever while the handle of the rebuild
\* is still under construction
C16_Witness ==
  /\ req.pc = "search"
  /\ adm.pc = "rebuild_finish"
  /\ req.r = retriever
  /\ retriever > 1
  /\ ~handles[adm.h].ready
  /\ FullyConstructed(req.h)

\* C17 (as stated): after a deletion whose rebuild failed, and until a later
\* rebuild succeeds, a request is served through the handle that was cached
\* before the deletion.
C17_ServedByCachedHandle ==
  (/\ req.pc = "done"
   /\ req.retrieve_called
   /\ req.expect # NoIndex
   /\ obs.stale = req.expect
   /\ adm.pc = "idle")
    => req.searched = req.expect

\* C18: when the rebuild fails, the delete request still answers 200 with
\* the number of deleted embeddings, the failure is logged, and the file and
\* its embeddings stay deleted.
C18_NoRollback ==
  (adm.op = "delete" /\ adm.failed # "none")
    => /\ adm.logged
       /\ adm.pc \in {"return", "done"}
       /\ adm.pc = "done" => adm.status = 200
       /\ adm.deleted = adm.had
       /\ ~store.file
       /\ store.embeddings = 0

C18_Witness ==
  /\ adm.op = "delete"
  /\ adm.pc = "done"
  /\ adm.failed = "build"
  /\ adm.status = 200
  /\ adm.deleted = 1

\* C19 (as stated): an admin operation that changed the store and answers
\* with success has rebuilt the handle, and a request that starts after it
\* returned is not served through a handle created before the change.
C19_Invalidated ==
  /\ (adm.pc = "done" /\ adm.status = 200 /\ adm.mutated)
       => (adm.h # NoIndex /\ handles[adm.h].built_at = store.version)
  /\ (req.pc = "done" /\ req.searched # NoIndex)
       => handles[req.searched].built_at >= req.floor

AllSpace(s) == \A i \in 1 .. Len(s) : s[i] \in {" ", "\n"}

\* C20: a request whose user or input is empty or whitespace-only is
\* answered 400 and neither Orchestrator.run, nor the retriever, nor the
\* chat client is invoked for it.
C20_Rejected ==
  (req.pc # "idle" /\ (AllSpace(req.user) \/ AllSpace(req.input)))
    => /\ req.pc = "done"
       /\ req.status = 400
       /\ ~req.run_called
       /\ ~req.retrieve_called
       /\ ~req.chat_called
       /\ req.r = 0
       /\ req.searched = NoIndex

C20_Witness ==
  /\ req.pc = "done"
  /\ req.status = 400
  /\ req.user = <<" ">>
  /\ req.input = <<"q">>

(***************************************************************************)
(* Further properties of Retriever.retrieve.                               *)
(***************************************************************************)
Unscored(r) == r.score.kind # "num"

\* s is the beginning of t
IsPrefix(s, t) == Len(s) <= Len(t) /\ s = SubSeq(t, 1, Len(s))

\* the candidates of the search placed before position i that the threshold
\* filtering passed on
PassedBefore(i) == Len(SelectSeq(ret.passed, LAMBDA r : r.id < i))

\* C21: a candidate without a numeric score passes the threshold filtering
\* in similarity and in distance mode, whatever the thresholds; it is absent
\* from the answer only when the final cap cut it off.
C21_UnscoredKept ==
  Searched =>
    \A i \in 1 .. Len(ret.results) :
      Unscored(ret.results[i]) =>
        /\ \E j \in 1 .. Len(ret.passed) : ret.passed[j] = ret.results[i]
        /\ IsPrefix(Ids(ret.out), Ids(ret.passed))
        /\ (\A j \in 1 .. Len(ret.out) : ret.out[j].id # i)
             => PassedBefore(i) >= Len(ret.out)

\* distance mode: an unscored candidate is returned next to a scored one
\* that fails, and another unscored one is cut off by the cap
C21_Witness ==
  /\ Searched
  /\ DistanceActive
  /\ cfg.top_k = 1
  /\ Len(ret.results) = 3
  /\ ret.results[1].score = Num(16)
  /\ Unscored(ret.results[2])
  /\ Unscored(ret.results[3])
  /\ Ids(ret.out) = <<2>>

\* a retrieve call that reaches the index starts
RetrieveStep == ret.op = "none" /\ ret'.op = "retrieve" /\ ret'.searched

\* a call of _get_index(rebuild=True) starts
RebuildStep == ret.op = "none" /\ ret'.op = "rebuild"

\* a handle that did not exist before the step is created and cached
CreatesHandle ==
  /\ created' = created + 1
  /\ index' \notin 0 .. created
  /\ ret'.handle = index'

\* the cached handle is used and none is created
ReusesHandle ==
  /\ created' = created
  /\ index' = index
  /\ ret'.handle = index

NonEmptyText(c) == c.text.some /\ c.text.v # <<>>

\* the first top_k of the returned chunks that have a text
Expected == FirstK(SelectSeq(run.returned, NonEmptyText), orch.top_k)

\* sources and segments stand for the chunks of e, one for one and in order
SourcesAre(e) ==
  /\ Len(run.sources) = Len(e)
  /\ Len(Segments(run.block)) = Len(e)
  /\ \A i \in 1 .. Len(e) :
       /\ run.sources[i].ref = i
       /\ run.sources[i].score = e[i].score
       /\ run.sources[i].metadata = DictOrEmpty(e[i].metadata)
       /\ Tail(Segments(run.block)[i]) = Strip(e[i].text.v)

\* C23 (as stated): the sources of a result are the first top_k returned
\* chunks with a non-empty text, in retrieval order, the chunks without text
\* being dropped before the cap.
C23_Original == (run.op = "run" /\ run.result) => SourcesAre(Expected)

\* C23 (amended): the same, for top_k >= 0.
C23_Sources ==
  (run.op = "run" /\ run.result /\ orch.top_k >= 0) => SourcesAre(Expected)

\* a chunk without text stands first and does not take the only slot
C23_Witness ==
  /\ run.op = "run"
  /\ run.result
  /\ orch.top_k = 1
  /\ Len(run.returned) = 2
  /\ run.returned[1].text = Str(<<>>)
  /\ run.returned[1].score = NoneScore
  /\ run.returned[2].text = Str(<<" ", "a">>)
  /\ run.returned[2].score = Num(5)
  /\ Len(run.sources) = 1
  /\ run.sources[1].score = Num(5)

(***************************************************************************)
(* Retriever.retrieve when a threshold is not configured or not active.    *)
(***************************************************************************)
NoThresholdConfigured ==
  cfg.min_score.kind # "num" /\ cfg.max_distance.kind # "num"

\* C24 (as stated): with neither min_score nor max_distance configured, the
\* answer is the first min(top_k, number of candidates) candidates in their
\* order, whatever score_type and the scores are.
C24_Original ==
  (Searched /\ NoThresholdConfigured) =>
    /\ Len(ret.out) = Min(cfg.top_k, Len(ret.results))
    /\ Ids(ret.out) = FirstK(Ids(ret.results), cfg.top_k)
    /\ FaithfulCopies

\* C24 (amended): the same, for top_k >= 0.
C24_Unfiltered ==
  (Searched /\ NoThresholdConfigured /\ cfg.top_k >= 0) =>
    /\ Len(ret.out) = Min(cfg.top_k, Len(ret.results))
    /\ Ids(ret.out) = FirstK(Ids(ret.results), cfg.top_k)
    /\ FaithfulCopies

\* low similarity scores, no threshold: the first two of three come back
C24_Witness ==
  /\ Searched
  /\ NoThresholdConfigured
  /\ cfg.top_k = 2
  /\ Len(ret.results) = 3
  /\ ret.results[1].score = Num(4)
  /\ ret.results[2].score = Num(16)
  /\ Ids(ret.out) = <<1, 2>>

\* the semantics resolved to one whose threshold is not configured
ResolvedUnconfigured ==
  \/ ret.score_type = "similarity" /\ cfg.min_score.kind # "num"
  \/ ret.score_type = "distance" /\ cfg.max_distance.kind # "num"

\* C25 (as stated): when the resolved semantics has no threshold configured
\* no candidate is dropped, even with the other threshold configured, and
\* the answer is the first top_k candidates.
C25_Original ==
  (Searched /\ ResolvedUnconfigured) =>
    /\ ret.passed = ret.results
    /\ Ids(ret.out) = FirstK(Ids(ret.results), cfg.top_k)

\* C25 (amended): the same, the answer being the first top_k candidates
\* for top_k >= 0.
C25_OnlyResolved ==
  (Searched /\ ResolvedUnconfigured) =>
    /\ ret.passed = ret.results
    /\ cfg.top_k >= 0 =>
         /\ Ids(ret.out) = FirstK(Ids(ret.results), cfg.top_k)
         /\ FaithfulCopies

\* 'auto' with only min_score configured and a batch classified as distance:
\* the candidates under min_score come back
C25_Witness ==
  /\ Searched
  /\ cfg.score_type = "auto"
  /\ cfg.min_score.kind = "num"
  /\ cfg.max_distance.kind # "num"
  /\ ret.score_type = "distance"
  /\ cfg.top_k = 2
  /\ Len(ret.results) = 3
  /\ ret.results[1].score = Num(4)
  /\ ret.results[2].score = Num(16)
  /\ Ids(ret.out) = <<1, 2>>

\* candidate r fails the active threshold
Fails(r) ==
  \/ SimilarityActive /\ ~MeetsMinScore(r)
  \/ DistanceActive /\ ~MeetsMaxDistance(r)

\* C26: with a threshold active and a candidate passing it, every returned
\* chunk passes it or is unscored, also when fewer than min_results come
\* back; a failing candidate is returned only when every candidate failed.
C26_NoPadding ==
  (Searched /\ (SimilarityActive \/ DistanceActive)) =>
    /\ Survivors # <<>> =>
         \A i \in 1 .. Len(ret.out) : ~Fails(ret.results[ret.out[i].id])
    /\ (\E i \in 1 .. Len(ret.out) : Fails(ret.results[ret.out[i].id]))
         => \A j \in 1 .. Len(ret.results) : Fails(ret.results[j])

\* one candidate of two passes and min_results = 2: one chunk comes back
C26_Witness ==
  /\ Searched
  /\ SimilarityActive
  /\ cfg.min_results = 2
  /\ cfg.top_k = 2
  /\ Len(ret.results) = 2
  /\ ret.results[1].score = Num(4)
  /\ ret.results[2].score = Num(5)
  /\ Ids(ret.out) = <<2>>

====
